---- MODULE Spec2Model ----
(***************************************************************************)
(* Restaurant sentiment analyzer: the dashboard (app.py), the scraper      *)
(* (scraper.py) and the categorizer (categorizer.py).                      *)
(*                                                                         *)
(* Text is a sequence of one-character strings, so that substring search,  *)
(* replacement, stripping and case folding are computed, not assumed.      *)
(* Python's None is the empty tuple <<>> and a present value v is <<v>>.   *)
(***************************************************************************)
EXTENDS Integers, Sequences, FiniteSets, TLC

VARIABLES
    dash_pc,           \* app.py: "off" | "loaded" (json.load done) | "serving"
    reviews_data,      \* app.py:23,66  the module-level review list
    request,           \* the last request index() handled: form field and page
    filtered_reviews,  \* index(): the local of that name
    response,          \* index(): what render_template was given
    scr_pc,            \* scraper.py: position in the scraping function
    scr_entry,         \* which entry point runs: "restaurant" | "competitor"
    max_pages,         \* scrape_restaurant_reviews: the max_pages argument
    page_number,       \* scraper.py:31,103
    data,              \* scraper.py:30,102  the rows collected so far
    presented,         \* history: every review item the browser has shown
    page_errors,       \* history: number of page-level exceptions raised
    output_csv,        \* the file at output_file: None until written
    scr_returned,      \* the value the entry point returned
    cat_pc,            \* categorizer.py: "off" | "loop" | "save" | "done"
    df,                \* categorizer.py:101  the rows of the input CSV
    categorized_reviews, \* categorizer.py:104
    api_log,           \* history: the row each client.messages.create call was for
    api_outcomes,      \* history: what the API did on each row
    output_json,       \* the file at output_json: None until written
    json_writes,       \* history: number of times that file was written
    today,             \* the date datetime.now() gives
    main_csv,          \* restaurant_reviews_content.csv: Rating and Date of each row
    competitor_csv,    \* competitor_reviews.csv: None until written
    csv_writer,        \* history: the request that wrote competitor_reviews.csv last
    plot_file,         \* static/comparison_plot.png: None until written
    ca_pc,             \* competitor_analysis(): position of each request
    ca                 \* competitor_analysis(): the locals of each request

dashVars == <<dash_pc, reviews_data, request, filtered_reviews, response>>
scrVars == <<scr_pc, scr_entry, max_pages, page_number, data, presented,
             page_errors, output_csv, scr_returned>>
catVars == <<cat_pc, df, categorized_reviews, api_log, api_outcomes, output_json,
             json_writes>>
caVars == <<today, main_csv, competitor_csv, csv_writer, plot_file, ca_pc, ca>>

vars == <<dash_pc, reviews_data, request, filtered_reviews, response,
          scr_pc, scr_entry, max_pages, page_number, data, presented,
          page_errors, output_csv, scr_returned,
          cat_pc, df, categorized_reviews, api_log, api_outcomes, output_json,
          json_writes,
          today, main_csv, competitor_csv, csv_writer, plot_file, ca_pc, ca>>

None == <<>>
Some(v) == <<v>>

(***************************************************************************)
(* The three programs are run separately; a program that is not running    *)
(* holds these values.                                                     *)
(***************************************************************************)
DashOff ==
    /\ dash_pc = "off"
    /\ reviews_data = <<>>
    /\ request = None
    /\ filtered_reviews = <<>>
    /\ response = None

ScraperOff ==
    /\ scr_pc = "off"
    /\ scr_entry = "none"
    /\ max_pages = None
    /\ page_number = 0
    /\ data = <<>>
    /\ presented = <<>>
    /\ page_errors = 0
    /\ output_csv = None
    /\ scr_returned = None

CategorizerOff ==
    /\ cat_pc = "off"
    /\ df = <<>>
    /\ categorized_reviews = <<>>
    /\ api_log = <<>>
    /\ api_outcomes = <<>>
    /\ output_json = None
    /\ json_writes = 0

CompetitorAnalysisOff ==
    /\ today = None
    /\ main_csv = <<>>
    /\ competitor_csv = None
    /\ csv_writer = 0
    /\ plot_file = None
    /\ ca_pc = <<>>
    /\ ca = <<>>

(***************************************************************************)
(* Python string primitives                                                *)
(***************************************************************************)
Whitespace == {" ", "\n", "\t"}

UpperCase ==
    <<"A","B","C","D","E","F","G","H","I","J","K","L","M","N","O","P","Q","R","S","T","U","V","W","X","Y","Z">>
LowerCase ==
    <<"a","b","c","d","e","f","g","h","i","j","k","l","m","n","o","p","q","r","s","t","u","v","w","x","y","z">>

UpperToLower ==
    [c \in {UpperCase[i] : i \in 1..26} |-> LowerCase[CHOOSE i \in 1..26 : UpperCase[i] = c]]

\* str.lower()
Lower(s) ==
    [i \in 1..Len(s) |-> IF s[i] \in DOMAIN UpperToLower THEN UpperToLower[s[i]] ELSE s[i]]

RECURSIVE LStrip(_)
LStrip(s) == IF s # <<>> /\ Head(s) \in Whitespace THEN LStrip(Tail(s)) ELSE s

RECURSIVE RStrip(_)
RStrip(s) ==
    IF s # <<>> /\ s[Len(s)] \in Whitespace THEN RStrip(SubSeq(s, 1, Len(s) - 1)) ELSE s

\* str.strip()
Strip(s) == RStrip(LStrip(s))

\* sub in s
Contains(s, sub) ==
    \E i \in 0..(Len(s) - Len(sub)) : SubSeq(s, i + 1, i + Len(sub)) = sub

StartsWith(s, p) == Len(p) <= Len(s) /\ SubSeq(s, 1, Len(p)) = p

\* s.replace(old, new): every non-overlapping occurrence, scanning left to right
RECURSIVE Replace(_, _, _)
Replace(s, old, new) ==
    IF old = <<>> \/ Len(s) < Len(old) THEN s
    ELSE IF StartsWith(s, old)
         THEN new \o Replace(SubSeq(s, Len(old) + 1, Len(s)), old, new)
         ELSE <<Head(s)>> \o Replace(Tail(s), old, new)

\* re.sub(r'\s+', ' ', s): each maximal run of whitespace becomes one space
RECURSIVE CollapseWs(_)
CollapseWs(s) ==
    IF s = <<>> THEN <<>>
    ELSE IF Head(s) \in Whitespace
         THEN <<" ">> \o CollapseWs(LStrip(s))
         ELSE <<Head(s)>> \o CollapseWs(Tail(s))

\* re.sub(r'\s+', ' ', s.strip())                              app.py:31-33
Normalize(s) == CollapseWs(Strip(s))

SentenceEnd == {".", "!", "?"}

\* re.split(r'[.!?]', s): the pieces between terminators, empty ones included
RECURSIVE SplitAcc(_, _)
SplitAcc(s, cur) ==
    IF s = <<>> THEN <<cur>>
    ELSE IF Head(s) \in SentenceEnd
         THEN <<cur>> \o SplitAcc(Tail(s), <<>>)
         ELSE SplitAcc(Tail(s), Append(cur, Head(s)))

SplitSentences(s) == SplitAcc(s, <<>>)

\* seq[start:end] for Python ints start, end (negative indices count from the end)
PySlice(seq, start, end) ==
    LET n  == Len(seq)
        lo == IF start < 0 THEN (IF start + n < 0 THEN 0 ELSE start + n)
              ELSE (IF start > n THEN n ELSE start)
        hi == IF end < 0 THEN (IF end + n < 0 THEN 0 ELSE end + n)
              ELSE (IF end > n THEN n ELSE end)
    IN  IF lo < hi THEN SubSeq(seq, lo + 1, hi) ELSE <<>>

\* dict.get(key, default)
Get(d, key, default) == IF key \in DOMAIN d THEN d[key] ELSE default

(***************************************************************************)
(* app.py: preprocess_reviews                                              *)
(***************************************************************************)
SpanFood  == <<"<","s","p","a","n"," ","c","l","a","s","s","=","\"","f","o","o","d","\"",">">>
SpanStaff == <<"<","s","p","a","n"," ","c","l","a","s","s","=","\"","s","t","a","f","f","\"",">">>
SpanClose == <<"<","/","s","p","a","n",">">>

\* one pass of a highlighting loop body                        app.py:36-41
HighlightSentence(original_review, raw_sentence, open) ==
    LET sentence == Strip(raw_sentence)
    IN  IF sentence # <<>> /\ Contains(original_review, sentence)
        THEN Replace(original_review, sentence, open \o sentence \o SpanClose)
        ELSE original_review

\* the for loop over the sentences of one Analysis field
RECURSIVE HighlightAll(_, _, _)
HighlightAll(original_review, sentences, open) ==
    IF sentences = <<>> THEN original_review
    ELSE HighlightAll(HighlightSentence(original_review, Head(sentences), open),
                      Tail(sentences), open)

\* a labelling that tests the single categories before the pair
LabelOf_FoodFirst(food_quality, staff_service) ==
    IF food_quality # <<>> THEN "food"
    ELSE IF staff_service # <<>> THEN "staff"
    ELSE IF food_quality # <<>> /\ staff_service # <<>> THEN "both"
    ELSE "none"

\* the if/elif chain that labels a review                      app.py:52-59
LabelOf(food_quality, staff_service) ==
    IF food_quality # <<>> /\ staff_service # <<>> THEN "both"
    ELSE IF food_quality # <<>> THEN "food"
    ELSE IF staff_service # <<>> THEN "staff"
    ELSE "none"

\* the body of the for loop over reviews_data                  app.py:31-61
preprocess_review(review) ==
    LET original_review == Normalize(review.Original_Review)
        food_quality    == Normalize(Get(review.Analysis, "Food Quality", <<>>))
        staff_service   == Normalize(Get(review.Analysis, "Staff/Service", <<>>))
        after_food      == HighlightAll(original_review, SplitSentences(food_quality), SpanFood)
        after_staff     == HighlightAll(after_food, SplitSentences(staff_service), SpanStaff)
    IN  [Reviewer_Name   |-> review.Reviewer_Name,
         Analysis        |-> review.Analysis,
         Label           |-> LabelOf(food_quality, staff_service),
         Original_Review |-> after_staff]

preprocess_reviews(reviews) ==
    [i \in 1..Len(reviews) |-> preprocess_review(reviews[i])]

(***************************************************************************)
(* app.py: index                                                           *)
(***************************************************************************)
reviews_per_page == 10

QFood     == <<"f","o","o","d">>
QStaff    == <<"s","t","a","f","f">>
QService  == <<"s","e","r","v","i","c","e">>
QServices == <<"s","e","r","v","i","c","e","s">>

\* request.form.get('search_query', '').strip().lower()       app.py:74
SearchQuery(form_query) == Lower(Strip(form_query))

\* the if/elif/elif of the filter loop                         app.py:84-89
Matches(review, search_query) ==
    LET label == review.Label
    IN  IF search_query = QFood /\ label \in {"food", "both"} THEN TRUE
        ELSE IF search_query \in {QStaff, QService, QServices} /\ label \in {"staff", "both"}
             THEN TRUE
        ELSE Contains(Lower(review.Original_Review), search_query)

RECURSIVE Filter(_, _)
Filter(reviews, search_query) ==
    IF reviews = <<>> THEN <<>>
    ELSE (IF Matches(Head(reviews), search_query) THEN <<Head(reviews)>> ELSE <<>>)
         \o Filter(Tail(reviews), search_query)

\* app.py:80-91
FilterReviews(reviews, search_query) ==
    IF search_query # <<>> THEN Filter(reviews, search_query) ELSE reviews

\* ceil(total_reviews / reviews_per_page)                      app.py:95
TotalPages(total_reviews) == -((-total_reviews) \div reviews_per_page)

\* a slice that starts one page late
Paginate_StartAtPage(filtered, page) ==
    LET start == page * reviews_per_page
        end   == start + reviews_per_page
    IN  PySlice(filtered, start, end)

\* app.py:96-98
Paginate(filtered, page) ==
    LET start == (page - 1) * reviews_per_page
        end   == start + reviews_per_page
    IN  PySlice(filtered, start, end)

\* app.py:100-106
Pagination(page, total_pages) ==
    [current_page |-> page,
     total_pages  |-> total_pages,
     prev_page    |-> IF page > 1 THEN Some(page - 1) ELSE None,
     next_page    |-> IF page < total_pages THEN Some(page + 1) ELSE None,
     pages        |-> [i \in 1..total_pages |-> i]]

(***************************************************************************)
(* The reviews the dashboard is started on                                 *)
(***************************************************************************)
MaxReviews == 25

FQ == "Food Quality"
SS == "Staff/Service"

Catalog == <<
    \* both fields quote the text; untidy whitespace
    [Original_Review |-> <<" ","G","o","o","d"," ","f","o","o","d","."," "," ","N","i","c","e"," ","s","t","a","f","f","!"," ">>,
     Analysis |-> (FQ :> <<"G","o","o","d"," ","f","o","o","d",".">>)
               @@ (SS :> <<"N","i","c","e"," ","s","t","a","f","f","!">>)],
    \* no category, and the text mentions food
    [Original_Review |-> <<"t","h","e"," ","f","o","o","d"," ","w","a","s"," ","c","o","l","d">>,
     Analysis |-> (FQ :> <<>>) @@ (SS :> <<>>)],
    \* a second fragment that is part of the first
    [Original_Review |-> <<"g","o","o","d"," ","f","o","o","d">>,
     Analysis |-> (FQ :> <<"g","o","o","d"," ","f","o","o","d","."," ","f","o","o","d">>)],
    \* a field holding only whitespace
    [Original_Review |-> <<"s","l","o","w"," ","s","e","r","v","i","c","e">>,
     Analysis |-> (FQ :> <<" ">>)
               @@ (SS :> <<"s","l","o","w"," ","s","e","r","v","i","c","e">>)],
    \* the failure default of the categorizer
    [Original_Review |-> <<"o","k">>,
     Analysis |-> (FQ :> <<>>) @@ (SS :> <<>>)],
    \* only the staff field, the other key absent
    [Original_Review |-> <<"n","i","c","e"," ","s","t","a","f","f">>,
     Analysis |-> (SS :> <<"n","i","c","e"," ","s","t","a","f","f">>)],
    \* a field that is not a substring of the text (case differs)
    [Original_Review |-> <<"T","a","s","t","y"," ","m","e","a","l">>,
     Analysis |-> (FQ :> <<"t","a","s","t","y">>)]
>>

\* the i-th record of categorized_reviews.json: the file cycles through the catalog
RawReview(i) ==
    LET c == Catalog[((i - 1) % Len(Catalog)) + 1]
    IN  [Reviewer_Name |-> i, Original_Review |-> c.Original_Review, Analysis |-> c.Analysis]

\* form values of search_query
Queries == {
    <<>>,
    <<"f","o","o","d">>,
    <<" ","F","o","o","d"," ">>,
    <<"S","T","A","F","F">>,
    <<"s","e","r","v","i","c","e">>,
    <<"s","e","r","v","i","c","e","s">>,
    <<"s","p","a","n">>,
    <<"z","z","z">> }

\* pages asked for: -MaxBack .. MaxPage
MaxBack == 2
MaxPage == 4

(***************************************************************************)
(* scraper.py: scrape_restaurant_reviews and scrape_competitor_reviews      *)
(*                                                                         *)
(* The browser is the environment: each call into it either raises or      *)
(* returns one of the values below.  A review item says which of its four  *)
(* elements the page holds; find_element raises on a missing one.           *)
(***************************************************************************)
MaxSitePages == 3
MaxItems == 2

FullItem     == [name |-> TRUE,  rating |-> TRUE,  date |-> TRUE, text |-> TRUE]
NoNameItem   == [name |-> FALSE, rating |-> TRUE,  date |-> TRUE, text |-> TRUE]
NoRatingItem == [name |-> TRUE,  rating |-> FALSE, date |-> TRUE, text |-> TRUE]
ItemKinds == {FullItem, NoNameItem, NoRatingItem}

\* what find_elements("ol[aria-label='Reviews List'] > li") can return
PageContents == UNION {[1..n -> ItemKinds] : n \in 0..MaxItems}

ItemId(page, pos) == page * 10 + pos

\* scraper.py:41-51: the row of one item, None when a find_element raises
RestaurantRow(item, id) ==
    IF item.name /\ item.rating /\ item.date /\ item.text
    THEN Some([Reviewer_Name |-> id, Rating |-> id, Date |-> id, Review_Text |-> id])
    ELSE None

\* scraper.py:113-119
CompetitorRow(item, id) ==
    IF item.rating /\ item.date THEN Some([Rating |-> id, Date |-> id]) ELSE None

RowOf(entry, item, id) ==
    IF entry = "restaurant" THEN RestaurantRow(item, id) ELSE CompetitorRow(item, id)

\* the for loop over the items of one page: scraper.py:39-54, 111-121
RECURSIVE ExtractRows(_, _, _, _)
ExtractRows(entry, items, page, pos) ==
    IF pos > Len(items) THEN <<>>
    ELSE RowOf(entry, items[pos], ItemId(page, pos))
         \o ExtractRows(entry, items, page, pos + 1)

\* scraper.py:57: "if max_pages and page_number >= max_pages"
ReachedMaxPages(mp, page) == mp # None /\ mp[1] # 0 /\ page >= mp[1]

\* where an exception raised in the loop body goes: scrape_competitor_reviews
\* catches it and breaks (scraper.py:137-139), scrape_restaurant_reviews has no
\* handler around the page-level calls (scraper.py:33-75)
AfterPageError(entry) == IF entry = "competitor" THEN "save" ELSE "raised"

\* scraper.py:26-31, 98-103: the browser is open on the first page
InitScraper ==
    /\ DashOff
    /\ CategorizerOff
    /\ CompetitorAnalysisOff
    /\ scr_pc = "page"
    /\ \/ scr_entry = "restaurant" /\ max_pages \in {None, Some(0), Some(1), Some(2)}
       \/ scr_entry = "competitor" /\ max_pages = None
    /\ page_number = 1
    /\ data = <<>>
    /\ presented = <<>>
    /\ page_errors = 0
    /\ output_csv = None
    /\ scr_returned = None

\* scraper.py:37-54, 109-121: the items of the current page are read
ExtractPage ==
    /\ scr_pc = "page"
    /\ \E items \in PageContents :
          /\ data' = data \o ExtractRows(scr_entry, items, page_number, 1)
          /\ presented' = presented \o
                 [i \in 1..Len(items) |-> [item |-> items[i], id |-> ItemId(page_number, i)]]
    /\ scr_pc' = "nav"
    /\ UNCHANGED <<scr_entry, max_pages, page_number, page_errors, output_csv, scr_returned>>
    /\ UNCHANGED <<dashVars, catVars, caVars>>

\* scraper.py:37, 109: find_elements raises
ExtractPageRaises ==
    /\ scr_pc = "page"
    /\ page_errors' = page_errors + 1
    /\ scr_pc' = AfterPageError(scr_entry)
    /\ UNCHANGED <<scr_entry, max_pages, page_number, data, presented, output_csv, scr_returned>>
    /\ UNCHANGED <<dashVars, catVars, caVars>>

\* scraper.py:57-59
MaxPagesReached ==
    /\ scr_pc = "nav"
    /\ scr_entry = "restaurant"
    /\ ReachedMaxPages(max_pages, page_number)
    /\ scr_pc' = "save"
    /\ UNCHANGED <<scr_entry, max_pages, page_number, data, presented, page_errors,
                   output_csv, scr_returned>>
    /\ UNCHANGED <<dashVars, catVars, caVars>>

CanNavigate ==
    /\ scr_pc = "nav"
    /\ ~(scr_entry = "restaurant" /\ ReachedMaxPages(max_pages, page_number))

\* scraper.py:62-69, 124-131: the next-page control is there and is clicked
ClickNext ==
    /\ CanNavigate
    /\ page_number < MaxSitePages
    /\ page_number' = page_number + 1
    /\ scr_pc' = "page"
    /\ UNCHANGED <<scr_entry, max_pages, data, presented, page_errors, output_csv, scr_returned>>
    /\ UNCHANGED <<dashVars, catVars, caVars>>

\* scraper.py:70-75, 132-135: no control, or one that is not displayed or enabled
NoNextPage ==
    /\ CanNavigate
    /\ scr_pc' = "save"
    /\ UNCHANGED <<scr_entry, max_pages, page_number, data, presented, page_errors,
                   output_csv, scr_returned>>
    /\ UNCHANGED <<dashVars, catVars, caVars>>

\* scraper.py:62-67, 124-129: find_elements, is_displayed, is_enabled or click raises
NavigateRaises ==
    /\ CanNavigate
    /\ page_errors' = page_errors + 1
    /\ scr_pc' = AfterPageError(scr_entry)
    /\ UNCHANGED <<scr_entry, max_pages, page_number, data, presented, output_csv, scr_returned>>
    /\ UNCHANGED <<dashVars, catVars, caVars>>

OutputFile(entry) ==
    IF entry = "restaurant" THEN "restaurant_reviews_content.csv" ELSE "competitor_reviews.csv"

\* scraper.py:77-84, 141-148: driver.quit(), to_csv, return output_file
SaveAndReturn ==
    /\ scr_pc = "save"
    /\ output_csv' = Some(data)
    /\ scr_returned' = Some(OutputFile(scr_entry))
    /\ scr_pc' = "returned"
    /\ UNCHANGED <<scr_entry, max_pages, page_number, data, presented, page_errors>>
    /\ UNCHANGED <<dashVars, catVars, caVars>>

NextScraper ==
    \/ ExtractPage
    \/ ExtractPageRaises
    \/ MaxPagesReached
    \/ ClickNext
    \/ NoNextPage
    \/ NavigateRaises
    \/ SaveAndReturn

SpecScraper == InitScraper /\ [][NextScraper]_vars

\* the rows of the complete items among those shown, in the order shown
CompleteRows(entry, shown) ==
    LET complete(x) ==
            IF entry = "restaurant"
            THEN x.item.name /\ x.item.rating /\ x.item.date /\ x.item.text
            ELSE x.item.rating /\ x.item.date
        kept == SelectSeq(shown, complete)
    IN  [i \in 1..Len(kept) |->
            IF entry = "restaurant"
            THEN [Reviewer_Name |-> kept[i].id, Rating |-> kept[i].id,
                  Date |-> kept[i].id, Review_Text |-> kept[i].id]
            ELSE [Rating |-> kept[i].id, Date |-> kept[i].id]]

\* C5: in both entry points an item whose extraction fails is the only one left
\* out, and after a page-level error the loop ends, the rows collected so far
\* are written to the output file and its path is returned.
C5_PartialResultsSaved ==
    /\ data = CompleteRows(scr_entry, presented)
    /\ page_errors > 0 /\ data # <<>> => scr_pc \in {"save", "returned"}
    /\ scr_pc = "returned" =>
          /\ output_csv = Some(CompleteRows(scr_entry, presented))
          /\ scr_returned = Some(OutputFile(scr_entry))

(***************************************************************************)
(* categorizer.py                                                          *)
(*                                                                         *)
(* The API is the environment.  A call raises (network or API error) or    *)
(* returns a message; the message text is valid JSON holding an Analysis,  *)
(* or it is not JSON.                                                      *)
(***************************************************************************)
MaxRows == 3

DefaultAnalysis == (FQ :> <<>>) @@ (SS :> <<>>)

\* what json.loads gives for the JSON texts the API may answer with: both
\* categories, one category (the prompt asks for absent ones to be left out), none
JsonAnalyses == {
    (FQ :> <<"g","o","o","d">>) @@ (SS :> <<"n","i","c","e">>),
    (FQ :> <<"g","o","o","d">>),
    << >> }

ApiOutcomes ==
    {[kind |-> "network_error"], [kind |-> "api_error"], [kind |-> "no_message"],
     [kind |-> "not_json"]}
    \cup {[kind |-> "json", value |-> a] : a \in JsonAnalyses}

Failed(outcome) == outcome.kind # "json"

\* an error handler that gives back an empty mapping
categorize_single_review_EmptyOnError(outcome) ==
    IF outcome.kind = "json" THEN outcome.value ELSE << >>

\* categorizer.py:45-74: the value returned for each thing the API can do
categorize_single_review(outcome) ==
    CASE outcome.kind \in {"network_error", "api_error"} -> DefaultAnalysis  \* lines 72-74
      [] outcome.kind = "no_message" -> DefaultAnalysis                       \* lines 69-70
      [] outcome.kind = "not_json" -> DefaultAnalysis       \* json.loads raises: lines 67, 72-74
      [] outcome.kind = "json" -> outcome.value                               \* lines 66-68

\* the i-th row of the input CSV
CsvRow(i) ==
    [Reviewer_Name |-> i, Rating |-> i, Date |-> i,
     Review_Text |-> Catalog[((i - 1) % Len(Catalog)) + 1].Original_Review]

\* categorizer.py:94-107
InitCategorizer ==
    /\ DashOff
    /\ ScraperOff
    /\ CompetitorAnalysisOff
    /\ cat_pc = "loop"
    /\ \E n \in 0..MaxRows : df = [i \in 1..n |-> CsvRow(i)]
    /\ categorized_reviews = <<>>
    /\ api_log = <<>>
    /\ api_outcomes = <<>>
    /\ output_json = None
    /\ json_writes = 0

\* categorizer.py:109-126: one iteration of the loop over the rows
CategorizeRow ==
    /\ cat_pc = "loop"
    /\ Len(categorized_reviews) < Len(df)
    /\ LET index == Len(categorized_reviews) + 1
           row   == df[index]
       IN  \E outcome \in ApiOutcomes :
             /\ api_log' = Append(api_log, index)
             /\ api_outcomes' = Append(api_outcomes, outcome)
             /\ categorized_reviews' = Append(categorized_reviews,
                    [Reviewer_Name   |-> row.Reviewer_Name,
                     Rating          |-> row.Rating,
                     Date            |-> row.Date,
                     Original_Review |-> row.Review_Text,
                     Analysis        |-> categorize_single_review(outcome)])
    /\ UNCHANGED <<cat_pc, df, output_json, json_writes>>
    /\ UNCHANGED <<dashVars, scrVars, caVars>>

\* categorizer.py:128-133: the loop is over, the file is written
SaveJson ==
    /\ cat_pc = "loop"
    /\ Len(categorized_reviews) = Len(df)
    /\ output_json' = Some(categorized_reviews)
    /\ json_writes' = json_writes + 1
    /\ cat_pc' = "done"
    /\ UNCHANGED <<df, categorized_reviews, api_log, api_outcomes>>
    /\ UNCHANGED <<dashVars, scrVars, caVars>>

NextCategorizer == CategorizeRow \/ SaveJson

SpecCategorizer == InitCategorizer /\ [][NextCategorizer]_vars

\* C8: one API call per row and no more; one record per row, in input order,
\* whatever succeeds or fails; a failed row has both Analysis fields empty; the
\* output file is written once, after the last row.
C8_OneRecordPerRow ==
    LET done == Len(categorized_reviews)
    IN  /\ done <= Len(df)
        /\ api_log = [i \in 1..done |-> i]
        /\ \A i \in 1..done :
              /\ categorized_reviews[i].Original_Review = df[i].Review_Text
              /\ categorized_reviews[i].Reviewer_Name = df[i].Reviewer_Name
              /\ categorized_reviews[i].Rating = df[i].Rating
              /\ categorized_reviews[i].Date = df[i].Date
              /\ Failed(api_outcomes[i]) =>
                    /\ DOMAIN categorized_reviews[i].Analysis = {FQ, SS}
                    /\ categorized_reviews[i].Analysis[FQ] = <<>>
                    /\ categorized_reviews[i].Analysis[SS] = <<>>
        /\ cat_pc # "done" => output_json = None /\ json_writes = 0
        /\ cat_pc = "done" =>
              /\ done = Len(df)
              /\ json_writes = 1
              /\ output_json = Some(categorized_reviews)

\* a finished run over three rows in which the API failed in each of its ways
\* and also succeeded
C8_Witness ==
    /\ cat_pc = "done"
    /\ Len(df) = 3
    /\ Len(output_json[1]) = 3
    /\ \E i \in 1..3 : api_outcomes[i].kind \in {"network_error", "api_error"}
    /\ \E i \in 1..3 : api_outcomes[i].kind = "not_json"
    /\ \E i \in 1..3 : api_outcomes[i].kind = "json"

(***************************************************************************)
(* app.py: parse_date                                                      *)
(***************************************************************************)
Digits == <<"0","1","2","3","4","5","6","7","8","9">>
IsDigit(c) == \E i \in 1..10 : Digits[i] = c
DigitValue(c) == (CHOOSE i \in 1..10 : Digits[i] = c) - 1

RECURSIVE DigitsValue(_, _)
DigitsValue(s, acc) ==
    IF s = <<>> THEN acc ELSE DigitsValue(Tail(s), acc * 10 + DigitValue(Head(s)))

AllDigits(s) == s # <<>> /\ \A i \in 1..Len(s) : IsDigit(s[i])

\* int(s) for a string: Some(n), or None when int raises ValueError
ParseInt(s) ==
    LET t == Strip(s)
    IN  IF AllDigits(t) THEN Some(DigitsValue(t, 0))
        ELSE IF Len(t) > 1 /\ t[1] = "-" /\ AllDigits(Tail(t)) THEN Some(-DigitsValue(Tail(t), 0))
        ELSE IF Len(t) > 1 /\ t[1] = "+" /\ AllDigits(Tail(t)) THEN Some(DigitsValue(Tail(t), 0))
        ELSE None

\* str.split(): the words between runs of whitespace
RECURSIVE SplitWsAcc(_, _)
SplitWsAcc(s, cur) ==
    IF s = <<>> THEN (IF cur = <<>> THEN <<>> ELSE <<cur>>)
    ELSE IF Head(s) \in Whitespace
         THEN (IF cur = <<>> THEN <<>> ELSE <<cur>>) \o SplitWsAcc(Tail(s), <<>>)
         ELSE SplitWsAcc(Tail(s), Append(cur, Head(s)))

SplitWs(s) == SplitWsAcc(s, <<>>)

MonthNames == <<
    <<"j","a","n","u","a","r","y">>,
    <<"f","e","b","r","u","a","r","y">>,
    <<"m","a","r","c","h">>,
    <<"a","p","r","i","l">>,
    <<"m","a","y">>,
    <<"j","u","n","e">>,
    <<"j","u","l","y">>,
    <<"a","u","g","u","s","t">>,
    <<"s","e","p","t","e","m","b","e","r">>,
    <<"o","c","t","o","b","e","r">>,
    <<"n","o","v","e","m","b","e","r">>,
    <<"d","e","c","e","m","b","e","r">>
>>

IsLeap(y) == (y % 4 = 0 /\ y % 100 # 0) \/ y % 400 = 0

DaysIn(y, m) ==
    IF m = 2 THEN (IF IsLeap(y) THEN 29 ELSE 28)
    ELSE IF m \in {4, 6, 9, 11} THEN 30 ELSE 31

\* results of parse_date: a date, None, or the ValueError it lets escape
Date(y, m, d) == [kind |-> "date", y |-> y, m |-> m, d |-> d]
NoDate == [kind |-> "None", y |-> 0, m |-> 0, d |-> 0]
ValueError == [kind |-> "ValueError", y |-> 0, m |-> 0, d |-> 0]

\* datetime.strptime(s, "%B %d, %Y"): month name in any case, day of one or two
\* digits followed by a comma, year of four digits, whitespace between them
Strptime(s) ==
    LET w == SplitWs(s)
    IN  IF Len(w) # 3 \/ s = <<>> \/ Head(s) \in Whitespace \/ s[Len(s)] \in Whitespace
        THEN ValueError
        ELSE LET day  == SubSeq(w[2], 1, Len(w[2]) - 1)
                 isM  == \E m \in 1..12 : MonthNames[m] = Lower(w[1])
                 isD  == /\ Len(w[2]) \in {2, 3}
                         /\ w[2][Len(w[2])] = ","
                         /\ AllDigits(day)
                         /\ DigitsValue(day, 0) >= 1
                 isY  == Len(w[3]) = 4 /\ AllDigits(w[3])
             IN  IF ~(isM /\ isD /\ isY) THEN ValueError
                 ELSE LET m == CHOOSE k \in 1..12 : MonthNames[k] = Lower(w[1])
                          y == DigitsValue(w[3], 0)
                          d == DigitsValue(day, 0)
                      IN  IF y >= 1 /\ d <= DaysIn(y, m) THEN Date(y, m, d) ELSE ValueError

\* date - timedelta(days=n), n >= 0, one day at a time
RECURSIVE MinusDays(_, _)
MinusDays(date, n) ==
    IF n = 0 THEN date
    ELSE IF date.d > 1 THEN MinusDays(Date(date.y, date.m, date.d - 1), n - 1)
    ELSE IF date.m > 1
         THEN MinusDays(Date(date.y, date.m - 1, DaysIn(date.y, date.m - 1)), n - 1)
    ELSE MinusDays(Date(date.y - 1, 12, 31), n - 1)

\* date + timedelta(days=n), n >= 0
RECURSIVE PlusDays(_, _)
PlusDays(date, n) ==
    IF n = 0 THEN date
    ELSE IF date.d < DaysIn(date.y, date.m) THEN PlusDays(Date(date.y, date.m, date.d + 1), n - 1)
    ELSE IF date.m < 12 THEN PlusDays(Date(date.y, date.m + 1, 1), n - 1)
    ELSE PlusDays(Date(date.y + 1, 1, 1), n - 1)

DinedOn      == <<"D","i","n","e","d"," ","o","n">>
DinedOnSpace == <<"D","i","n","e","d"," ","o","n"," ">>
DaysAgo      == <<"d","a","y","s"," ","a","g","o">>

\* app.py:111-121; the clock time datetime.now() carries is left out
parse_date(date_string, now) ==
    IF Contains(date_string, DinedOn)
    THEN Strptime(Strip(Replace(date_string, DinedOnSpace, <<>>)))
    ELSE IF Contains(date_string, DaysAgo)
    THEN \* date_string.split()[1] is the second word
         LET days_ago == ParseInt(SplitWs(date_string)[2])
         IN  IF days_ago = None THEN ValueError
             ELSE IF days_ago[1] >= 0 THEN MinusDays(now, days_ago[1])
             ELSE PlusDays(now, -days_ago[1])
    ELSE NoDate

(***************************************************************************)
(* app.py: competitor_analysis                                             *)
(*                                                                         *)
(* Flask's development server handles each request on a thread of its own, *)
(* so two submissions can be in the handler together.  A step is one       *)
(* access to a file both can reach; what lies between two such accesses    *)
(* touches only the request's locals.                                      *)
(***************************************************************************)
MaxRequests == 2
Requests == 1..MaxRequests

\* the rows scrape_competitor_reviews collects from each competitor page
Site(url) ==
    IF url = "A"
    THEN <<
      [Rating |-> <<"4"," ","s","t","a","r","s">>,
       Date |-> <<"D","i","n","e","d"," ","o","n"," ","J","a","n","u","a","r","y"," ","5",","," ","2","0","2","4">>],
      [Rating |-> <<"2"," ","s","t","a","r","s">>,
       Date |-> <<"D","i","n","e","d"," ","3"," ","d","a","y","s"," ","a","g","o">>],
      [Rating |-> <<"5"," ","s","t","a","r","s">>,
       Date |-> <<"D","i","n","e","d"," ","o","n"," ","M","a","r","c","h"," ","1",","," ","2","0","2","4">>] >>
    ELSE <<
      [Rating |-> <<"3"," ","s","t","a","r","s">>,
       Date |-> <<"D","i","n","e","d"," ","o","n"," ","J","a","n","u","a","r","y"," ","2","0",","," ","2","0","2","4">>] >>

Urls == {"A", "B"}

\* contents of restaurant_reviews_content.csv (the Rating and Date columns)
MainFiles == {
    <<
      [Rating |-> <<"5"," ","s","t","a","r","s">>,
       Date |-> <<"D","i","n","e","d"," ","o","n"," ","J","a","n","u","a","r","y"," ","5",","," ","2","0","2","4">>],
      [Rating |-> <<"4"," ","s","t","a","r","s">>,
       Date |-> <<"D","i","n","e","d"," ","3"," ","d","a","y","s"," ","a","g","o">>] >>,
    <<
      [Rating |-> <<"5"," ","s","t","a","r","s">>,
       Date |-> <<"D","i","n","e","d"," ","o","n"," ","J","a","n","u","a","r","y"," ","5",","," ","2","0","2","4">>],
      [Rating |-> <<"1"," ","s","t","a","r">>,
       Date |-> <<"y","e","s","t","e","r","d","a","y">>],
      [Rating |-> <<"4"," ","s","t","a","r","s">>,
       Date |-> <<"D","i","n","e","d"," ","o","n"," ","J","a","n","u","a","r","y"," ","9",","," ","2","0","2","4">>] >>,
    <<
      [Rating |-> <<"5"," ","s","t","a","r","s">>,
       Date |-> <<"D","i","n","e","d"," ","o","n"," ","J","a","n","u","a","r","y"," ","5",","," ","2","0","2","4">>],
      [Rating |-> <<"3"," ","s","t","a","r","s">>,
       Date |-> <<"3"," ","d","a","y","s"," ","a","g","o">>] >>,
    <<
      [Rating |-> <<"5"," ","s","t","a","r","s">>,
       Date |-> <<"D","i","n","e","d"," ","o","n"," ","J","a","n","u","a","r","y"," ","5",","," ","2","0","2","4">>],
      [Rating |-> <<"2"," ","s","t","a","r","s">>,
       Date |-> <<"D","i","n","e","d"," ","o","n"," ","y","e","s","t","e","r","d","a","y">>] >> }

Todays == {Date(2024, 3, 2), Date(2025, 1, 2)}

NoLocals ==
    [competitor_url |-> "", competitor_df |-> <<>>, main_dates |-> <<>>,
     competitor_dates |-> <<>>, competitor_ratings |-> <<>>,
     competitor_df_aligned |-> <<>>, comparison_df |-> <<>>]

\* [int(rating[0]) for rating in df['Rating']]                app.py:145,150
LeadingDigits(rows) == [i \in 1..Len(rows) |-> DigitValue(rows[i].Rating[1])]

\* df['Date'].apply(parse_date)                                app.py:147,161
ParseDates(rows, now) == [i \in 1..Len(rows) |-> parse_date(rows[i].Date, now)]

Raises(dates) == \E i \in 1..Len(dates) : dates[i].kind = "ValueError"

Max(a, b) == IF a > b THEN a ELSE b

\* app.py:153-157: the list after the if/else
AlignLengths(competitor_ratings, main_len, competitor_len) ==
    LET max_len == Max(main_len, competitor_len)
    IN  IF Len(competitor_ratings) < max_len
        THEN competitor_ratings \o [i \in 1..(max_len - Len(competitor_ratings)) |-> None]
        ELSE PySlice(competitor_ratings, 0, max_len)

\* app.py:159-162: the Rating column is competitor_ratings[:len(competitor_df)]
AlignedFrame(competitor_ratings, competitor_len, dates) ==
    [Rating |-> PySlice(competitor_ratings, 0, competitor_len), Date |-> dates]

RECURSIVE SumOver(_, _)
SumOver(S, f) ==
    IF S = {} THEN 0 ELSE LET x == CHOOSE x \in S : TRUE IN f[x] + SumOver(S \ {x}, f)

\* groupby(Date.dt.to_period('M'))['Rating'].mean(): rows without a date belong
\* to no group, missing ratings are skipped; a mean is kept as <<sum, count>>
MonthlyMean(ratings, dates) ==
    LET dated(m) == {i \in 1..Len(dates) : dates[i].kind = "date" /\ <<dates[i].y, dates[i].m>> = m}
        rated(m) == {i \in dated(m) : ratings[i] # None}
        months   == {<<dates[i].y, dates[i].m>> : i \in {j \in 1..Len(dates) : dates[j].kind = "date"}}
    IN  [m \in months |->
            <<SumOver(rated(m), [i \in rated(m) |-> ratings[i][1]]), Cardinality(rated(m))>>]

\* app.py:170-174: outer join on the month, a month one side lacks is 0
Comparison(main_monthly, competitor_monthly) ==
    [m \in DOMAIN main_monthly \cup DOMAIN competitor_monthly |->
        [Your_Restaurant |-> IF m \in DOMAIN main_monthly /\ main_monthly[m][2] > 0
                             THEN main_monthly[m] ELSE <<0, 1>>,
         Competitor      |-> IF m \in DOMAIN competitor_monthly /\ competitor_monthly[m][2] > 0
                             THEN competitor_monthly[m] ELSE <<0, 1>>]]

InitCompetitorAnalysis ==
    /\ DashOff
    /\ ScraperOff
    /\ CategorizerOff
    /\ today \in {Some(t) : t \in Todays}
    /\ main_csv \in MainFiles
    /\ competitor_csv = None
    /\ csv_writer = 0
    /\ plot_file = None
    /\ ca_pc = [r \in Requests |-> "idle"]
    /\ ca = [r \in Requests |-> NoLocals]

\* app.py:129-134: a POST arrives and the scrape starts
Post(r) ==
    /\ ca_pc[r] = "idle"
    /\ \E url \in Urls : ca' = [ca EXCEPT ![r].competitor_url = url]
    /\ ca_pc' = [ca_pc EXCEPT ![r] = "scraping"]
    /\ UNCHANGED <<today, main_csv, competitor_csv, csv_writer, plot_file>>
    /\ UNCHANGED <<dashVars, scrVars, catVars>>

\* scraper.py:141-148: the scrape ends and writes competitor_reviews.csv
WriteCompetitorCsv(r) ==
    /\ ca_pc[r] = "scraping"
    /\ competitor_csv' = Some(Site(ca[r].competitor_url))
    /\ csv_writer' = r
    /\ ca_pc' = [ca_pc EXCEPT ![r] = "written"]
    /\ UNCHANGED <<today, main_csv, plot_file, ca>>
    /\ UNCHANGED <<dashVars, scrVars, catVars>>

\* app.py:137-138: pd.read_csv(competitor_file)
ReadCompetitorCsv(r) ==
    /\ ca_pc[r] = "written"
    /\ ca' = [ca EXCEPT ![r].competitor_df = competitor_csv[1]]
    /\ ca_pc' = [ca_pc EXCEPT ![r] = "loaded"]
    /\ UNCHANGED <<today, main_csv, competitor_csv, csv_writer, plot_file>>
    /\ UNCHANGED <<dashVars, scrVars, catVars>>

\* app.py:141-174: from reading the primary file to the comparison table; a
\* ValueError out of parse_date ends the request
Compute(r) ==
    /\ ca_pc[r] = "loaded"
    /\ LET competitor_df == ca[r].competitor_df
           main_ratings  == [i \in 1..Len(main_csv) |-> Some(LeadingDigits(main_csv)[i])]
           main_dates    == ParseDates(main_csv, today[1])
           ratings0      == [i \in 1..Len(competitor_df) |-> Some(LeadingDigits(competitor_df)[i])]
           ratings       == AlignLengths(ratings0, Len(main_csv), Len(competitor_df))
           comp_dates    == ParseDates(competitor_df, today[1])
           aligned       == AlignedFrame(ratings, Len(competitor_df), comp_dates)
       IN  IF Raises(main_dates)
           THEN /\ ca' = [ca EXCEPT ![r].main_dates = main_dates]
                /\ ca_pc' = [ca_pc EXCEPT ![r] = "error"]
           ELSE IF Raises(comp_dates)
           THEN /\ ca' = [ca EXCEPT ![r].main_dates = main_dates,
                                    ![r].competitor_ratings = ratings,
                                    ![r].competitor_dates = comp_dates]
                /\ ca_pc' = [ca_pc EXCEPT ![r] = "error"]
           ELSE /\ ca' = [ca EXCEPT ![r].main_dates = main_dates,
                                    ![r].competitor_ratings = ratings,
                                    ![r].competitor_dates = comp_dates,
                                    ![r].competitor_df_aligned = aligned,
                                    ![r].comparison_df =
                                        Comparison(MonthlyMean(main_ratings, main_dates),
                                                   MonthlyMean(aligned.Rating, aligned.Date))]
                /\ ca_pc' = [ca_pc EXCEPT ![r] = "computed"]
    /\ UNCHANGED <<today, main_csv, competitor_csv, csv_writer, plot_file>>
    /\ UNCHANGED <<dashVars, scrVars, catVars>>

\* app.py:177-196: the chart is drawn and saved over static/comparison_plot.png
SavePlot(r) ==
    /\ ca_pc[r] = "computed"
    /\ plot_file' = Some(ca[r].comparison_df)
    /\ ca_pc' = [ca_pc EXCEPT ![r] = "done"]
    /\ UNCHANGED <<today, main_csv, competitor_csv, csv_writer, ca>>
    /\ UNCHANGED <<dashVars, scrVars, catVars>>

NextCompetitorAnalysis ==
    \E r \in Requests :
        \/ Post(r)
        \/ WriteCompetitorCsv(r)
        \/ ReadCompetitorCsv(r)
        \/ Compute(r)
        \/ SavePlot(r)

SpecCompetitorAnalysis == InitCompetitorAnalysis /\ [][NextCompetitorAnalysis]_vars

(***************************************************************************)
(* Claims about competitor analysis                                        *)
(***************************************************************************)
WordDined == <<"D","i","n","e","d">>
WordDays  == <<"d","a","y","s">>
WordAgo   == <<"a","g","o">>

\* "Dined on <Month> <Day>, <Year>"
IsAbsoluteForm(d) ==
    /\ StartsWith(d, DinedOnSpace)
    /\ Strptime(SubSeq(d, Len(DinedOnSpace) + 1, Len(d))).kind = "date"

\* "<N> days ago", also as the site writes it, "Dined <N> days ago"
IsRelativeForm(d) ==
    LET w == SplitWs(d)
        v == IF Len(w) = 4 /\ w[1] = WordDined THEN Tail(w) ELSE w
    IN  /\ Len(v) = 3
        /\ AllDigits(v[1])
        /\ v[2] = WordDays
        /\ v[3] = WordAgo

RelativeDays(d) ==
    LET w == SplitWs(d) IN DigitsValue(w[Len(w) - 2], 0)

\* the date the claim gives each string
ClaimedDate(d, now) ==
    IF IsAbsoluteForm(d) THEN Strptime(SubSeq(d, Len(DinedOnSpace) + 1, Len(d)))
    ELSE IF IsRelativeForm(d) THEN MinusDays(now, RelativeDays(d))
    ELSE NoDate

Parsed(r) == ca_pc[r] \in {"error", "computed", "done"}
Computed(r) == ca_pc[r] \in {"computed", "done"}

\* C4: parse_date gives "Dined on <Month> <Day>, <Year>" that date, "<N> days ago"
\* the current date minus N days, and any other string null, raising no error; a
\* row with a null date is in no month of the comparison.
C4_ParseDate ==
    \A r \in Requests :
        Parsed(r) =>
            /\ ca_pc[r] # "error"
            /\ \A i \in 1..Len(main_csv) :
                  ca[r].main_dates[i] = ClaimedDate(main_csv[i].Date, today[1])
            /\ \A i \in 1..Len(ca[r].competitor_dates) :
                  ca[r].competitor_dates[i] = ClaimedDate(ca[r].competitor_df[i].Date, today[1])
            /\ Computed(r) =>
                  DOMAIN ca[r].comparison_df =
                      {<<x.y, x.m>> : x \in
                          {y \in {ClaimedDate(main_csv[i].Date, today[1]) : i \in 1..Len(main_csv)}
                                 \cup {ClaimedDate(ca[r].competitor_df[i].Date, today[1]) :
                                          i \in 1..Len(ca[r].competitor_df)} :
                             y.kind = "date"}}

\* C6: the competitor rating series that the monthly means are computed from has
\* the primary file's row count: padded with missing values when the competitor
\* has fewer rows, cut to the first rows when it has more.
C6_CompetitorAlignedToPrimary ==
    \A r \in Requests :
        Computed(r) =>
            LET series == ca[r].competitor_df_aligned.Rating
                n      == Len(ca[r].competitor_df)
            IN  /\ Len(series) = Len(main_csv)
                /\ \A i \in 1..Len(series) :
                      series[i] = IF i <= n
                                  THEN Some(DigitValue(ca[r].competitor_df[i].Rating[1]))
                                  ELSE None

\* C7: the chart image is the only thing one request writes that another request
\* in the handler at the same time can read or overwrite: the competitor file a
\* request has written is still its own when it reads it back.
C7_OnlyChartIsShared ==
    \A r \in Requests :
        /\ ca_pc[r] = "written" => csv_writer = r
        /\ ca_pc[r] \in {"loaded", "error", "computed", "done"} =>
              ca[r].competitor_df = Site(ca[r].competitor_url)

(***************************************************************************)
(* Dashboard process                                                       *)
(***************************************************************************)
\* app.py:22-23: the file has been read, nothing is preprocessed yet
InitDash ==
    /\ dash_pc = "loaded"
    /\ \E n \in 0..MaxReviews : reviews_data = [i \in 1..n |-> RawReview(i)]
    /\ request = None
    /\ filtered_reviews = <<>>
    /\ response = None
    /\ ScraperOff
    /\ CategorizerOff
    /\ CompetitorAnalysisOff

\* app.py:66
Startup ==
    /\ dash_pc = "loaded"
    /\ reviews_data' = preprocess_reviews(reviews_data)
    /\ dash_pc' = "serving"
    /\ UNCHANGED <<request, filtered_reviews, response>>
    /\ UNCHANGED <<scrVars, catVars, caVars>>

\* app.py:70-108, one request to "/"
Index ==
    /\ dash_pc = "serving"
    /\ \E form_query \in Queries, page \in (-MaxBack)..MaxPage :
         \E filtered \in {FilterReviews(reviews_data, SearchQuery(form_query))} :
             /\ request' = Some([search_query |-> form_query, page |-> page])
             /\ filtered_reviews' = filtered
             /\ response' = Some([reviews    |-> Paginate(filtered, page),
                                  pagination |-> Pagination(page, TotalPages(Len(filtered)))])
    /\ UNCHANGED <<dash_pc, reviews_data>>
    /\ UNCHANGED <<scrVars, catVars, caVars>>

NextDash == Startup \/ Index

SpecDash == InitDash /\ [][NextDash]_vars

(***************************************************************************)
(* Claims about the list view                                              *)
(***************************************************************************)
Handled == response # None
Req == request[1]
Resp == response[1]

WithLabel(reviews, labels) == SelectSeq(reviews, LAMBDA r : r.Label \in labels)

\* C1: a search for "food" returns exactly the records labelled food or both, and
\* a search for "staff", "service" or "services" exactly those labelled staff or
\* both, whatever the text of the other records contains.
C1_SearchByLabelOnly ==
    Handled =>
        /\ SearchQuery(Req.search_query) = QFood
               => filtered_reviews = WithLabel(reviews_data, {"food", "both"})
        /\ SearchQuery(Req.search_query) \in {QStaff, QService, QServices}
               => filtered_reviews = WithLabel(reviews_data, {"staff", "both"})

\* the least t with t * reviews_per_page >= n
CeilPages(n) == CHOOSE t \in 0..n : t * 10 >= n /\ (t - 1) * 10 < n

\* C2: for every page number outside 1..total_pages, zero and negative numbers
\* included, the returned page is empty and the page number is passed on as given.
C2_OutOfRangePageIsEmpty ==
    Handled =>
        /\ Resp.pagination.current_page = Req.page
        /\ Req.page \notin 1..CeilPages(Len(filtered_reviews)) => Resp.reviews = <<>>

Min(a, b) == IF a < b THEN a ELSE b

\* C9: with N filtered records, total_pages = ceil(N/10), pages = 1..total_pages,
\* and every page p in 1..total_pages holds the filtered records at positions
\* (p-1)*10+1 .. min(p*10, N) in order; prev_page is null exactly when p = 1 and
\* next_page is null exactly when p = total_pages.
C9_Pagination ==
    Handled =>
        LET N     == Len(filtered_reviews)
            p     == Req.page
            total == CeilPages(N)
            pg    == Resp.pagination
        IN  /\ pg.total_pages = total
            /\ pg.pages = [i \in 1..total |-> i]
            /\ p \in 1..total =>
                   /\ Resp.reviews = SubSeq(filtered_reviews, (p - 1) * 10 + 1, Min(p * 10, N))
                   /\ (pg.prev_page = None) <=> (p = 1)
                   /\ (pg.next_page = None) <=> (p = total)
                   /\ pg.prev_page # None => pg.prev_page = Some(p - 1)
                   /\ pg.next_page # None => pg.next_page = Some(p + 1)

\* the example of the claim: 25 filtered records, page 3 holds records 21 to 25
C9_Witness ==
    /\ Handled
    /\ Len(filtered_reviews) = 25
    /\ Req.page = 3
    /\ Len(Resp.reviews) = 5
    /\ Resp.reviews[1] = filtered_reviews[21]
    /\ Resp.pagination.next_page = None

(***************************************************************************)
(* Claims about preprocessing                                              *)
(***************************************************************************)
\* the text with every occurrence of the three tags taken out, left to right
RECURSIVE RemoveMarkup(_)
RemoveMarkup(h) ==
    IF h = <<>> THEN <<>>
    ELSE IF StartsWith(h, SpanFood) THEN RemoveMarkup(SubSeq(h, Len(SpanFood) + 1, Len(h)))
    ELSE IF StartsWith(h, SpanStaff) THEN RemoveMarkup(SubSeq(h, Len(SpanStaff) + 1, Len(h)))
    ELSE IF StartsWith(h, SpanClose) THEN RemoveMarkup(SubSeq(h, Len(SpanClose) + 1, Len(h)))
    ELSE <<Head(h)>> \o RemoveMarkup(Tail(h))

Preprocessed == dash_pc = "serving"

\* C3: the highlighted text of every record, with the span tags removed, is the
\* whitespace-normalized original text.
C3_MarkupRoundTrip ==
    Preprocessed =>
        \A i \in 1..Len(reviews_data) :
            RemoveMarkup(reviews_data[i].Original_Review)
                = Normalize(RawReview(i).Original_Review)

TruthTable(food, staff) ==
    CASE food /\ staff   -> "both"
      [] food /\ ~staff  -> "food"
      [] ~food /\ staff  -> "staff"
      [] OTHER           -> "none"

\* C10 as stated: the Label follows from whether the two Analysis fields are
\* non-empty (an absent field counts as empty).
C10_LabelFromNonEmptyFields ==
    Preprocessed =>
        \A i \in 1..Len(reviews_data) :
            reviews_data[i].Label =
                TruthTable(Get(RawReview(i).Analysis, FQ, <<>>) # <<>>,
                           Get(RawReview(i).Analysis, SS, <<>>) # <<>>)

HasText(s) == \E j \in 1..Len(s) : s[j] \notin Whitespace

\* C10 amended: the Label follows from whether the two Analysis fields hold
\* anything but whitespace; text and highlighting play no part.
C10_LabelFromNonBlankFields ==
    Preprocessed =>
        \A i \in 1..Len(reviews_data) :
            reviews_data[i].Label =
                TruthTable(HasText(Get(RawReview(i).Analysis, FQ, <<>>)),
                           HasText(Get(RawReview(i).Analysis, SS, <<>>)))

\* a record whose Food Quality is a lone space is labelled as if it were empty,
\* and one whose field was not found in the text keeps its label
C10_Witness ==
    /\ Preprocessed
    /\ \E i \in 1..Len(reviews_data) :
           /\ Get(reviews_data[i].Analysis, FQ, <<>>) = <<" ">>
           /\ reviews_data[i].Label = "staff"
    /\ \E i \in 1..Len(reviews_data) :
           /\ reviews_data[i].Label = "food"
           /\ ~Contains(reviews_data[i].Original_Review, SpanFood)
    /\ \E i \in 1..Len(reviews_data) : reviews_data[i].Label = "both"
    /\ \E i \in 1..Len(reviews_data) : reviews_data[i].Label = "none"

====
